---- MODULE Spec2Model ----
(***************************************************************************)
(* Model of svws_schuljahr.py: the orchestrator run_all_increments, the    *)
(* step registry, the plan resolution, the MariaDBConnection handle and    *)
(* the increment steps it drives inside one transaction.                   *)
(*                                                                         *)
(* The store is the pair (committed, pending): committed is what the       *)
(* server has persisted, pending is what the open transaction of the one   *)
(* connection sees.  Closing the connection discards the pending state.    *)
(***************************************************************************)
EXTENDS Integers, Sequences, FiniteSets, TLC

(* ---------------------------- bounds ----------------------------------- *)

\* longest explicit plan (steps argument) that is enumerated
MaxPlanLen == 3

\* number of rows of table Schuljahresabschnitte
MaxRows == 2

\* lowest year value stored in Schuljahresabschnitte.Jahr
FirstYear == 2023

\* number of rows of Schuljahresabschnitte when the year rollover is
\* followed query by query
MaxYearRows == 3

\* number of changes other sessions of the store commit during one call of
\* the year rollover
MaxOther == 1

\* number of list-steps commands around a run, and the longest explicit
\* plan of such a run
MaxListings == 2

MaxListPlanLen == 1
MaxAgainPlanLen == 2
MaxHandleCalls == 3
MaxArgs == 2
MaxArgChars == 3

(* --------------------------- registry ---------------------------------- *)

\* get_available_steps with the key of the first entry on the second one
\* too
get_available_stepsDuplicateKey ==
    << "schuljahresabschnitte",
       "schuljahresabschnitte",
       "schueler_abschlussdatum",
       "schueler_year_fields",
       "schueler_abgaenge_dates",
       "schueler_lernabschnittsdaten_dates",
       "schueler_leistungsdaten_warndatum",
       "schueler_einzelleistungen_datum",
       "schueler_fehlstunden_datum",
       "schueler_vermerke_datum",
       "schueler_merkmale_dates",
       "schueler_foerderempfehlungen_dates",
       "schueler_allgadr_dates",
       "lehrer_dates" >>

\* get_available_steps(): the keys of the (key, function) list, in order
get_available_steps ==
    << "schuljahresabschnitte",
       "schueler_dates",
       "schueler_abschlussdatum",
       "schueler_year_fields",
       "schueler_abgaenge_dates",
       "schueler_lernabschnittsdaten_dates",
       "schueler_leistungsdaten_warndatum",
       "schueler_einzelleistungen_datum",
       "schueler_fehlstunden_datum",
       "schueler_vermerke_datum",
       "schueler_merkmale_dates",
       "schueler_foerderempfehlungen_dates",
       "schueler_allgadr_dates",
       "lehrer_dates" >>

\* the functions of the (key, function) list of get_available_steps(), in
\* order
registered ==
    << "increment_schuljahresabschnitte_jahr",
       "increment_schueler_dates",
       "increment_schueler_abschlussdatum",
       "increment_schueler_year_fields",
       "increment_schueler_abgaenge_dates",
       "increment_schueler_lernabschnittsdaten_dates",
       "increment_schueler_leistungsdaten_warndatum",
       "increment_schueler_einzelleistungen_datum",
       "increment_schueler_fehlstunden_datum",
       "increment_schueler_vermerke_datum",
       "increment_schueler_merkmale_dates",
       "increment_schueler_foerderempfehlungen_dates",
       "increment_schueler_allgadr_dates",
       "increment_lehrer_dates" >>

\* allowed.get(key) with allowed = dict(available_steps): the function of
\* the last entry that carries key, "None" without such an entry
allowed_get(key) ==
    LET at == { i \in DOMAIN get_available_steps : get_available_steps[i] = key }
    IN  IF at = {} THEN "None"
        ELSE registered[CHOOSE i \in at : \A j \in at : j <= i]

\* allowed = dict(available_steps): the keys that resolve to a function
allowed ==
    { get_available_steps[i] : i \in DOMAIN get_available_steps }

\* a key no registry entry carries
UnknownKey == "no_such_step"

\* the keys explicit plans are built from: three registry keys, chosen so
\* that plans can differ from registry order, and one unknown key
PlanKeys ==
    { "schuljahresabschnitte", "schueler_abschlussdatum", "lehrer_dates",
      UnknownKey }

RECURSIVE SeqsUpTo(_, _)
SeqsUpTo(S, n) ==
    IF n = 0 THEN { << >> }
    ELSE LET shorter == SeqsUpTo(S, n - 1)
         IN  shorter \cup { Append(s, k) : s \in shorter, k \in S }

\* the steps argument: None, or a list of keys
StepsArgs ==
    { [none |-> TRUE, keys |-> << >>] }
      \cup { [none |-> FALSE, keys |-> s] : s \in SeqsUpTo(PlanKeys, MaxPlanLen) }

(* ------------------------ plan resolution ------------------------------ *)

\* ResolveFrom that skips a key without a function instead of returning
RECURSIVE ResolveFromSkipsUnknown(_, _, _)
ResolveFromSkipsUnknown(keys, i, acc) ==
    IF i > Len(keys) THEN [ok |-> TRUE, exec_steps |-> acc]
    ELSE IF keys[i] \notin allowed THEN ResolveFromSkipsUnknown(keys, i + 1, acc)
    ELSE ResolveFromSkipsUnknown(keys, i + 1, Append(acc, keys[i]))

\* ResolveFrom that selects the requested keys from the registry, in
\* registry order
ResolveFromRegistryOrder(keys, i, acc) ==
    IF \E j \in DOMAIN keys : keys[j] \notin allowed
    THEN [ok |-> FALSE, exec_steps |-> << >>]
    ELSE [ok |-> TRUE,
          exec_steps |-> SelectSeq(get_available_steps,
                                   LAMBDA k : \E j \in DOMAIN keys : keys[j] = k)]

\* one iteration of "for key in steps": allowed.get(key), return False on
\* the first key without a function, else append and go on
RECURSIVE ResolveFrom(_, _, _)
ResolveFrom(keys, i, acc) ==
    IF i > Len(keys) THEN [ok |-> TRUE, exec_steps |-> acc]
    ELSE IF keys[i] \notin allowed THEN [ok |-> FALSE, exec_steps |-> << >>]
    ELSE ResolveFrom(keys, i + 1, Append(acc, keys[i]))

\* ResolvePlan that tests "if not steps" in place of "if steps is None"
ResolvePlanEmptyIsAll(arg) ==
    IF arg.none \/ arg.keys = << >>
    THEN [ok |-> TRUE, exec_steps |-> get_available_steps]
    ELSE ResolveFrom(arg.keys, 1, << >>)

\* building the execution list: steps is None -> all available steps
ResolvePlan(arg) ==
    IF arg.none THEN [ok |-> TRUE, exec_steps |-> get_available_steps]
    ELSE ResolveFrom(arg.keys, 1, << >>)

(* ------------------------------ store ---------------------------------- *)

\* SQL NULL / Python None in a Jahr cell; lower than every year
NULL == 0

Rows == 1 .. MaxRows

\* the contents of Schuljahresabschnitte.Jahr before the run: NULL or one
\* of two successive years in each row (enough for Jahr + 1 to exist or
\* not); the rows are interchangeable, so one table stands for each
\* multiset of values
InitialJahr ==
    { j \in [Rows -> ({NULL} \cup (FirstYear .. (FirstYear + 1)))] :
         \A r \in Rows : r < MaxRows => j[r] <= j[r + 1] }

\* every other table: how many times its date/year columns were advanced
InitialTab == [k \in allowed |-> 0]

(* --------------------------- handle ------------------------------------ *)

\* MariaDBConnection.commit: True and the pending state persisted, or False
\* (mariadb.Error caught, or no connection) and nothing persisted
commit(st, connected, out) ==
    IF connected /\ out = "ok"
    THEN [ret |-> TRUE, store |-> [committed |-> st.pending, pending |-> st.pending]]
    ELSE [ret |-> FALSE, store |-> st]

\* MariaDBConnection.rollback: True and the pending state discarded, or
\* False (mariadb.Error caught, or no connection) and the transaction as is
rollback(st, connected, out) ==
    IF connected /\ out = "ok"
    THEN [ret |-> TRUE, store |-> [committed |-> st.committed, pending |-> st.committed]]
    ELSE [ret |-> FALSE, store |-> st]

\* disconnect on a server that commits the open transaction of a
\* connection that closes
disconnectCommits(st, connected) ==
    IF connected
    THEN [committed |-> st.pending, pending |-> st.pending]
    ELSE st

\* MariaDBConnection.disconnect: close the connection if there is one; the
\* server drops the transaction the connection left open
disconnect(st, connected) ==
    IF connected
    THEN [committed |-> st.committed, pending |-> st.committed]
    ELSE st

\* MariaDBConnection.execute_update that succeeded: the new table contents
\* are pending, and persisted at once when the connection autocommits
execute_update(st, autocommit, new) ==
    [committed |-> IF autocommit THEN new ELSE st.committed, pending |-> new]

(* ------------------------------ steps ---------------------------------- *)

\* the distinct values of a column, highest first (ORDER BY Jahr DESC puts
\* NULL last)
RECURSIVE SortDesc(_)
SortDesc(S) ==
    IF S = {} THEN << >>
    ELSE LET m == CHOOSE x \in S : \A y \in S : y <= x
         IN  << m >> \o SortDesc(S \ {m})

\* jahre_list with ORDER BY Jahr ASC: lowest year first, NULL last
jahre_listAscending(table) ==
    LET n == Cardinality({ table[r] : r \in DOMAIN table })
        d == SortDesc({ table[r] : r \in DOMAIN table } \ {NULL})
    IN  [i \in 1 .. n |-> IF i > Len(d) THEN NULL ELSE d[Len(d) + 1 - i]]

\* jahre_list = [row[0] for row in jahre_result]
jahre_list(table) ==
    SortDesc({ table[r] : r \in DOMAIN table })

\* UpdateJahr without the WHERE clause: every row gets new_jahr
UpdateJahrWithoutWhere(table, jahr, new_jahr) ==
    [r \in DOMAIN table |-> new_jahr]

\* UPDATE Schuljahresabschnitte SET Jahr = new_jahr WHERE Jahr = jahr
UpdateJahr(table, jahr, new_jahr) ==
    [r \in DOMAIN table |-> IF table[r] = jahr THEN new_jahr ELSE table[r]]

\* JahrExists with WHERE Jahr >= new_jahr
JahrExistsAtLeast(table, new_jahr) ==
    \E r \in DOMAIN table : table[r] >= new_jahr

\* SELECT COUNT(*) ... WHERE Jahr = new_jahr reports a row
JahrExists(table, new_jahr) ==
    \E r \in DOMAIN table : table[r] = new_jahr

\* "for jahr in jahre_list": jahr + 1 on a None raises (fault); an existing
\* new_jahr skips the year; execute_update returning None ends the step
\* with False (fail_at is the position whose update the store rejects)
RECURSIVE YearLoop(_, _, _, _)
YearLoop(list, i, table, fail_at) ==
    IF i > Len(list) THEN [status |-> "ok", table |-> table]
    ELSE IF list[i] = NULL THEN [status |-> "fault", table |-> table]
    ELSE IF JahrExists(table, list[i] + 1)
         THEN YearLoop(list, i + 1, table, fail_at)
    ELSE IF fail_at = i THEN [status |-> "fail", table |-> table]
    ELSE YearLoop(list, i + 1, UpdateJahr(table, list[i], list[i] + 1), fail_at)

\* a step returns ok without having called db.commit() or db.rollback()
StepReturn(ok, st) ==
    [ok |-> ok, store |-> st, rolled |-> FALSE, committed |-> FALSE,
     raised |-> FALSE]

\* StepExcept without the try around db.rollback(): what the rollback
\* raises leaves the step
StepExceptUnguarded(st, connected, rb) ==
    [ok |-> FALSE, store |-> rollback(st, connected, rb).store, rolled |-> TRUE,
     committed |-> FALSE, raised |-> rb = "raise"]

\* the except branch every step ends with: db.rollback(), whatever it
\* returns or raises (rb = "raise": caught and logged), and the step
\* returns False; raised: an exception leaves the step
StepExcept(st, connected, rb) ==
    [ok |-> FALSE, store |-> rollback(st, connected, rb).store, rolled |-> TRUE,
     committed |-> FALSE, raised |-> FALSE]

\* StepFinish that commits whatever do_commit says
StepFinishCommitsAlways(st, connected, do_commit, cm) ==
    LET c == commit(st, connected, cm)
    IN  [ok |-> c.ret, store |-> c.store, rolled |-> FALSE, committed |-> TRUE,
         raised |-> FALSE]

\* what a step does when its updates went through: commit when do_commit,
\* else leave the transaction open and return True (rolled, committed: the
\* step called db.rollback(), db.commit())
StepFinish(st, connected, do_commit, cm) ==
    IF do_commit
    THEN LET c == commit(st, connected, cm)
         IN  [ok |-> c.ret, store |-> c.store, rolled |-> FALSE,
              committed |-> TRUE, raised |-> FALSE]
    ELSE StepReturn(TRUE, st)

\* the inputs of one step call: what the store answers
\*   out      - "ok", "fail" (execute_update returns None), "fault" (an
\*              exception inside the step body), "empty" (nothing to update)
\*              and, in DirectInputs, "query_error" (the first
\*              execute_query returns None)
\*   fail_at  - the position of the year update the store rejects, 0: none
\*   rb, cm   - what rollback and commit answer when the step calls them
StepInputs ==
    [out : {"ok", "fail", "fault", "empty"}, fail_at : 0 .. MaxRows,
     rb : {"ok", "fail"}, cm : {"ok"}]

\* increment_schuljahresabschnitte_jahr(db, do_commit)
increment_schuljahresabschnitte_jahr(st, db, do_commit, q) ==
    IF ~db.connection THEN StepReturn(FALSE, st)
    ELSE IF q.out = "empty" \/ jahre_list(st.pending.jahr) = << >>
    THEN StepReturn(TRUE, st)
    ELSE LET l  == YearLoop(jahre_list(st.pending.jahr), 1, st.pending.jahr, q.fail_at)
             s1 == IF l.table = st.pending.jahr THEN st
                   ELSE execute_update(st, db.conn_autocommit,
                                       [st.pending EXCEPT !.jahr = l.table])
         IN  CASE l.status = "fault" -> StepExcept(s1, db.connection, q.rb)
               [] l.status = "fail"  -> StepReturn(FALSE, s1)
               [] OTHER              -> StepFinish(s1, db.connection, do_commit, q.cm)

\* the steps that advance the date/year columns of one table with a single
\* UPDATE: increment_schueler_dates ... increment_lehrer_dates
increment_dates(key, st, db, do_commit, q) ==
    IF ~db.connection THEN StepReturn(FALSE, st)
    ELSE IF q.out = "fail" THEN StepReturn(FALSE, st)
    ELSE LET s1 == execute_update(st, db.conn_autocommit,
                     [st.pending EXCEPT !.tab[key] = @ + 1])
         IN  IF q.out = "fault" THEN StepExcept(s1, db.connection, q.rb)
             ELSE StepFinish(s1, db.connection, do_commit, q.cm)

\* increment_schueler_abschlussdatum(db, do_commit): returns True at once
\* when the count of non-empty values is 0, and takes a count query that
\* failed (None) for a count of 0
increment_schueler_abschlussdatum(st, db, do_commit, q) ==
    IF ~db.connection THEN StepReturn(FALSE, st)
    ELSE IF q.out \in {"empty", "query_error"} THEN StepReturn(TRUE, st)
    ELSE increment_dates("schueler_abschlussdatum", st, db, do_commit, q)

\* func(db, do_commit): the function the registry holds for key
func(key, st, db, do_commit, q) ==
    LET f == allowed_get(key)
    IN  CASE f = "increment_schuljahresabschnitte_jahr" ->
                 increment_schuljahresabschnitte_jahr(st, db, do_commit, q)
          [] f = "increment_schueler_abschlussdatum" ->
                 increment_schueler_abschlussdatum(st, db, do_commit, q)
          [] OTHER -> increment_dates(key, st, db, do_commit, q)

\* the inputs that make a difference to the step of this key
InputsOf(key) ==
    CASE key = "schuljahresabschnitte" ->
             { q \in StepInputs : q.out \in {"ok", "empty"} }
      [] key = "schueler_abschlussdatum" ->
             { q \in StepInputs : q.fail_at = 0 }
      [] OTHER -> { q \in StepInputs : q.fail_at = 0 /\ q.out # "empty" }

(* ------------------------------ state ---------------------------------- *)

VARIABLES
    pc,          \* where run_all_increments stands
    steps,       \* the steps argument: [none, keys]
    dry_run,     \* the dry_run argument
    exec_steps,  \* the resolved execution list (keys)
    idx,         \* position of the for loop in exec_steps
    db,          \* the MariaDBConnection object
    store,       \* [committed, pending]
    before,      \* what the store held when the run was called
    calls,       \* the handle operations called so far, in order
    invoked,     \* the steps called so far, with what each returned
    ret,         \* the value a return statement has set, before finally
    result,      \* what the call gave the caller: "none" while running
    exit_status, \* what main_cli gave the shell: << >> until it has
    direct,      \* a step function called on its own, query by query
    printed,     \* what the list-steps commands printed so far, in order
    cli,         \* main_cli's run command: args.steps and what became of it
    handle       \* a MariaDBConnection used on its own, call by call

vars ==
    << pc, steps, dry_run, exec_steps, idx, db, store, before, calls,
       invoked, ret, result, exit_status, direct, printed, cli, handle >>

\* the variables of an orchestrated run
runvars ==
    << pc, steps, dry_run, exec_steps, idx, db, store, before, calls,
       invoked, ret, result, exit_status >>

NoDb ==
    [created |-> FALSE, connection |-> FALSE, configured |-> TRUE,
     autocommit |-> TRUE, conn_autocommit |-> FALSE]

\* direct while no step function is called on its own
NoDirect ==
    [pc |-> "none"]

\* cli while main_cli runs no command of its own
NoCli ==
    [pc |-> "none"]

\* handle while no MariaDBConnection is used on its own
NoHandle ==
    [pc |-> "none"]

\* one entry of calls: the operation, the step it belongs to, who called
\* it ("run": run_all_increments, "step": a step) and how it ended
Op(name, key, by, res) ==
    [op |-> name, key |-> key, by |-> by, res |-> res]

Init ==
    /\ pc = "idle"
    /\ steps = [none |-> TRUE, keys |-> << >>]
    /\ dry_run = FALSE
    /\ exec_steps = << >>
    /\ idx = 1
    /\ db = NoDb
    /\ \E j \in InitialJahr :
          /\ store = [committed |-> [tab |-> InitialTab, jahr |-> j],
                      pending   |-> [tab |-> InitialTab, jahr |-> j]]
          /\ before = [tab |-> InitialTab, jahr |-> j]
    /\ calls = << >>
    /\ invoked = << >>
    /\ ret = "none"
    /\ result = "none"
    /\ exit_status = << >>
    /\ direct = NoDirect
    /\ printed = << >>
    /\ cli = NoCli
    /\ handle = NoHandle

(* --------------------------- run_all_increments ------------------------ *)

\* the call, and the building of the execution list; an unknown key
\* returns False at once
Call(arg, dry) ==
    /\ pc = "idle"
    /\ steps' = arg
    /\ dry_run' = dry
    /\ LET r == ResolvePlan(arg)
       IN  IF r.ok
           THEN /\ exec_steps' = r.exec_steps
                /\ pc' = "config"
                /\ result' = result
           ELSE /\ exec_steps' = exec_steps
                /\ pc' = "returned"
                /\ result' = "False"
    /\ UNCHANGED << idx, db, store, before, calls, invoked, ret, exit_status,
                    direct, printed, cli, handle >>

\* create_connection_from_config: a MariaDBConnection with the configured
\* autocommit (configured keeps what the file said), or None when the
\* file is missing or no JSON (return False);
\* any other exception of load_config or config.get leaves the run
create_connection_from_config(out, autocommit) ==
    /\ pc = "config"
    /\ CASE out = "ok" ->
              /\ db' = [created |-> TRUE, connection |-> FALSE,
                        configured |-> autocommit,
                        autocommit |-> autocommit, conn_autocommit |-> FALSE]
              /\ pc' = "connect"
              /\ result' = result
         [] out = "none" ->
              /\ db' = db
              /\ pc' = "returned"
              /\ result' = "False"
         [] OTHER ->
              /\ db' = db
              /\ pc' = "returned"
              /\ result' = "raised"
    /\ calls' = Append(calls, Op("load_config", "", "run", out))
    /\ UNCHANGED << steps, dry_run, exec_steps, idx, store, before, invoked,
                    ret, exit_status, direct, printed, cli, handle >>

\* DisableAutocommit without the assignment: the configured value stays
DisableAutocommitForgotten(d) ==
    d

\* DisableAutocommit assigning True: the object asks for autocommit
DisableAutocommitEnables(d) ==
    [d EXCEPT !.autocommit = TRUE]

\* db.autocommit = False, before connect
DisableAutocommit(d) ==
    [d EXCEPT !.autocommit = FALSE]

\* after connect: db.connection.autocommit = False, inside try/except
\* pass; when the driver refuses the assignment the connection keeps the
\* autocommit it was opened with
EnsureAutocommitOff(conn_autocommit, refused) ==
    IF refused THEN conn_autocommit ELSE FALSE

\* connect without the test of what db.connect() returned: the run goes
\* on into the loop without a connection
connectUnchecked(out, refused) ==
    /\ pc = "connect"
    /\ LET d == DisableAutocommit(db)
       IN  db' = IF out = "ok"
                 THEN [d EXCEPT !.connection = TRUE,
                                !.conn_autocommit =
                                    EnsureAutocommitOff(d.autocommit, refused)]
                 ELSE d
    /\ pc' = "running"
    /\ calls' = Append(calls, Op("connect", "", "run", out))
    /\ idx' = 1
    /\ UNCHANGED << steps, dry_run, exec_steps, store, before, invoked, ret,
                    result, exit_status, direct, printed, cli, handle >>

\* db.connect(): the connection takes the autocommit of the object, and is
\* then set to autocommit off once more; False when the server refuses, and
\* then run_all_increments returns False
connect(out, refused) ==
    /\ pc = "connect"
    /\ LET d == DisableAutocommit(db)
       IN  IF out = "ok"
           THEN /\ db' = [d EXCEPT !.connection = TRUE,
                                   !.conn_autocommit =
                                       EnsureAutocommitOff(d.autocommit, refused)]
                /\ pc' = "running"
                /\ result' = result
           ELSE /\ db' = d
                /\ pc' = "returned"
                /\ result' = "False"
    /\ calls' = Append(calls, Op("connect", "", "run", out))
    /\ idx' = 1
    /\ UNCHANGED << steps, dry_run, exec_steps, store, before, invoked, ret, exit_status,
                    direct, printed, cli, handle >>

\* AfterStep without the "if not ok" branch: the loop goes on
AfterStepIgnoresFailure(ok) ==
    "running"

\* the do_commit a step gets when the keyword is left out: its default
StepDoCommitDefault ==
    TRUE

\* the do_commit the loop passes: func(db, do_commit=False)
StepDoCommit ==
    FALSE

\* where the loop goes after ok = func(db, do_commit=False)
AfterStep(ok) ==
    IF ok THEN "running" ELSE "fail_rollback"

\* one iteration of "for key, func in exec_steps"
RunStep(q) ==
    /\ pc = "running"
    /\ idx <= Len(exec_steps)
    /\ LET key == exec_steps[idx]
           r   == func(key, store, db, StepDoCommit, q)
       IN  /\ q \in InputsOf(key)
           /\ store' = r.store
           /\ calls' = calls \o << Op("step", key, "run", q.out) >>
                             \o (IF r.committed
                                 THEN << Op("commit", key, "step", q.cm) >>
                                 ELSE << >>)
                             \o (IF r.rolled
                                 THEN << Op("rollback", key, "step", q.rb) >>
                                 ELSE << >>)
           /\ invoked' = Append(invoked, [key |-> key, ok |-> r.ok])
           /\ pc' = AfterStep(r.ok)
           /\ idx' = IF AfterStep(r.ok) = "running" THEN idx + 1 ELSE idx
    /\ UNCHANGED << steps, dry_run, exec_steps, db, before, ret, result, exit_status, direct,
                    printed, cli, handle >>

\* AfterLoop without the dry_run test: always commit
AfterLoopAlwaysCommits(dry) ==
    "commit"

\* where the run goes when the loop is through
AfterLoop(dry) ==
    IF dry THEN "dry_rollback" ELSE "commit"

\* the loop is through: all steps succeeded
StepsDone ==
    /\ pc = "running"
    /\ idx > Len(exec_steps)
    /\ pc' = AfterLoop(dry_run)
    /\ UNCHANGED << steps, dry_run, exec_steps, idx, db, store, before,
                    calls, invoked, ret, result, exit_status, direct,
                    printed, cli, handle >>

\* a handle call of the orchestrator that returns: log it, take its effect
Resolve(name, out, r, next, value) ==
    /\ store' = r.store
    /\ calls' = Append(calls, Op(name, "", "run", out))
    /\ pc' = next
    /\ ret' = value
    /\ UNCHANGED << steps, dry_run, exec_steps, idx, db, before, invoked,
                    result, exit_status, direct, printed, cli, handle >>

\* FailRollback that goes back into the loop instead of returning
FailRollbackGoesOn(out) ==
    /\ pc = "fail_rollback"
    /\ Resolve("rollback", out, rollback(store, db.connection, out), "running", "none")

\* "Step failed ... Rolling back.": db.rollback(); return False
FailRollback(out) ==
    /\ pc = "fail_rollback"
    /\ Resolve("rollback", out, rollback(store, db.connection, out), "finally", "False")

\* "Dry-run enabled; rolling back all changes.": db.rollback(); return True
DryRollback(out) ==
    /\ pc = "dry_rollback"
    /\ Resolve("rollback", out, rollback(store, db.connection, out), "finally", "True")

\* AfterCommit that does not test what db.commit() returned
AfterCommitUnchecked(ok) ==
    [pc |-> "finally", ret |-> "True"]

\* AfterCommit that returns False on a failed commit without the rollback
AfterCommitNoRollback(ok) ==
    IF ok THEN [pc |-> "finally", ret |-> "True"]
    ELSE [pc |-> "finally", ret |-> "False"]

\* what follows db.commit(): return True, or the rollback and return False
AfterCommit(ok) ==
    IF ok THEN [pc |-> "finally", ret |-> "True"]
    ELSE [pc |-> "commit_rollback", ret |-> "none"]

\* if db.commit(): ... else: ...
FinalCommit(out) ==
    /\ pc = "commit"
    /\ LET c == commit(store, db.connection, out)
       IN  Resolve("commit", out, c, AfterCommit(c.ret).pc, AfterCommit(c.ret).ret)

\* "Final commit failed; attempting rollback.": db.rollback(); return False
CommitRollback(out) ==
    /\ pc = "commit_rollback"
    /\ Resolve("rollback", out, rollback(store, db.connection, out), "finally", "False")

\* Finally without the disconnect: the connection stays open
FinallyWithoutDisconnect ==
    /\ pc = "finally"
    /\ pc' = "returned"
    /\ result' = ret
    /\ UNCHANGED << steps, dry_run, exec_steps, idx, db, store, before,
                    calls, invoked, ret, exit_status, direct, printed, cli, handle >>

\* finally: db.disconnect(), and the caller gets the value returned
Finally ==
    /\ pc = "finally"
    /\ store' = disconnect(store, db.connection)
    /\ db' = [db EXCEPT !.connection = FALSE]
    /\ calls' = Append(calls, Op("disconnect", "", "run", "ok"))
    /\ pc' = "returned"
    /\ result' = ret
    /\ UNCHANGED << steps, dry_run, exec_steps, idx, before, invoked, ret, exit_status, direct,
                    printed, cli, handle >>

\* ExitStatus that reports success whatever the run returned
ExitStatusAlwaysZero(ok) ==
    0

\* ExitStatus the wrong way round: 1 for True, 0 for False
ExitStatusInverted(ok) ==
    IF ok THEN 1 ELSE 0

\* return 0 if ok else 1
ExitStatus(ok) ==
    IF ok THEN 0 ELSE 1

\* main_cli, run command: the exit status made from what
\* run_all_increments returned; an exception that left the run leaves
\* main_cli too, and the interpreter exits with 1
main_cli ==
    /\ pc = "returned"
    /\ exit_status' = << IF result = "raised" THEN 1
                         ELSE ExitStatus(result = "True") >>
    /\ pc' = "exited"
    /\ UNCHANGED << steps, dry_run, exec_steps, idx, db, store, before,
                    calls, invoked, ret, result, direct, printed, cli, handle >>

Outcomes == {"ok", "fail"}

\* what a run does once it is called
NextCalled ==
    \/ \E out \in {"ok", "none", "raise"}, ac \in BOOLEAN :
          create_connection_from_config(out, ac)
    \/ \E out \in Outcomes, refused \in BOOLEAN : connect(out, refused)
    \/ \E q \in StepInputs : RunStep(q)
    \/ StepsDone
    \/ \E out \in Outcomes : FailRollback(out)
    \/ \E out \in Outcomes : DryRollback(out)
    \/ \E out \in Outcomes : FinalCommit(out)
    \/ \E out \in Outcomes : CommitRollback(out)
    \/ Finally
    \/ main_cli

Next ==
    \/ \E arg \in StepsArgs, dry \in BOOLEAN : Call(arg, dry)
    \/ NextCalled

Spec == Init /\ [][Next]_vars

(* ------------------- unexpected faults of the handle ------------------- *)

\* The methods of MariaDBConnection catch mariadb.Error and answer with a
\* sentinel, so under Spec no handle call of the orchestrator raises.  The
\* orchestrator still guards against it ("except Exception"): SpecTryFaults
\* adds the behaviours in which a handle call inside the try block raises
\* some other exception, SpecFaults those in which connect or disconnect,
\* which stand outside of it, raise as well.

\* the position of each handle call inside the try block, and its name
TryCalls ==
    { << "fail_rollback", "rollback" >>, << "dry_rollback", "rollback" >>,
      << "commit", "commit" >>, << "commit_rollback", "rollback" >> }

\* a handle call inside the try block raises: control goes to the handler
CallRaises(at) ==
    /\ at \in TryCalls
    /\ pc = at[1]
    /\ calls' = Append(calls, Op(at[2], "", "run", "raise"))
    /\ pc' = "except_rollback"
    /\ UNCHANGED << steps, dry_run, exec_steps, idx, db, store, before,
                    invoked, ret, result, exit_status, direct, printed, cli, handle >>

\* ExceptRollback without the rollback: the handler only returns False
ExceptWithoutRollback(out) ==
    /\ pc = "except_rollback"
    /\ pc' = "finally"
    /\ ret' = "False"
    /\ UNCHANGED << steps, dry_run, exec_steps, idx, db, store, before,
                    calls, invoked, result, exit_status, direct, printed, cli, handle >>

\* ExceptRollback without the try around db.rollback(): what the rollback
\* raises leaves the run, through finally
ExceptRollbackUnguarded(out) ==
    /\ pc = "except_rollback"
    /\ Resolve("rollback", out, rollback(store, db.connection, out), "finally",
               IF out = "raise" THEN "raised" ELSE "False")

\* except Exception: try db.rollback() except pass; return False
ExceptRollback(out) ==
    /\ pc = "except_rollback"
    /\ Resolve("rollback", out, rollback(store, db.connection, out), "finally", "False")

\* db.connect() raises, outside the try block: the exception leaves the run
ConnectRaises ==
    /\ pc = "connect"
    /\ db' = DisableAutocommit(db)
    /\ calls' = Append(calls, Op("connect", "", "run", "raise"))
    /\ pc' = "returned"
    /\ result' = "raised"
    /\ UNCHANGED << steps, dry_run, exec_steps, idx, store, before, invoked,
                    ret, exit_status, direct, printed, cli, handle >>

\* db.disconnect() raises inside finally: the exception replaces the
\* value returned; the server drops the transaction of the lost connection
DisconnectRaises ==
    /\ pc = "finally"
    /\ store' = disconnect(store, db.connection)
    /\ db' = [db EXCEPT !.connection = FALSE]
    /\ calls' = Append(calls, Op("disconnect", "", "run", "raise"))
    /\ pc' = "returned"
    /\ result' = "raised"
    /\ UNCHANGED << steps, dry_run, exec_steps, idx, before, invoked, ret, exit_status, direct,
                    printed, cli, handle >>

NextTryFaults ==
    \/ Next
    \/ \E at \in TryCalls : CallRaises(at)
    \/ \E out \in {"ok", "fail", "raise"} : ExceptRollback(out)

SpecTryFaults == Init /\ [][NextTryFaults]_vars

NextFaults ==
    \/ NextTryFaults
    \/ ConnectRaises
    \/ DisconnectRaises

SpecFaults == Init /\ [][NextFaults]_vars

(* ------------------------- main_cli list-steps ------------------------- *)

\* available_keys that shows what the last run executed, as if the run
\* had changed the registry
available_keysLeftByRun ==
    IF pc = "exited" /\ result # "none" /\ ~steps.none
    THEN exec_steps
    ELSE get_available_steps

\* steps = [k for k, _ in get_available_steps()]
available_keys ==
    get_available_steps

\* the list-steps command, before or after the run command: prints the
\* keys, one per line
list_steps ==
    /\ pc \in {"idle", "exited"}
    /\ Len(printed) < MaxListings
    /\ printed' = Append(printed, available_keys)
    /\ UNCHANGED << runvars, direct, cli, handle >>

\* the steps arguments of the runs that list-steps commands surround
ListArgs ==
    { [none |-> TRUE, keys |-> << >>] }
      \cup { [none |-> FALSE, keys |-> k] : k \in SeqsUpTo(PlanKeys, MaxListPlanLen) }

NextList ==
    \/ list_steps
    \/ \E arg \in ListArgs, dry \in BOOLEAN : Call(arg, dry)
    \/ NextCalled

SpecList == Init /\ [][NextList]_vars

(* ----------------- a step function called on its own ------------------- *)

\* The step functions are public and commit by default.  SpecDirect
\* follows one call of a step function on a handle: the year rollover
\* query by query, the single-UPDATE steps as one action each.

\* the years a row of Schuljahresabschnitte holds before the call
DirectYears ==
    {NULL} \cup (FirstYear .. (FirstYear + MaxYearRows - 1))

\* the tables of up to MaxYearRows rows; the rows are interchangeable, so
\* one table stands for each multiset of years
DirectJahr ==
    UNION { { j \in [1 .. n -> DirectYears] :
                 \A r \in 1 .. n : r < n => j[r] <= j[r + 1] } :
            n \in 0 .. MaxYearRows }

\* one entry of direct.ops: what the step asked of the handle (or the
\* exception it ran into), for which year, and the answer
DirectOp(name, jahr, res) ==
    [op |-> name, jahr |-> jahr, res |-> res]

\* what the store answers to one call of a single-UPDATE step
DirectInputs ==
    [out : {"ok", "fail", "fault", "empty", "query_error"}, fail_at : {0},
     rb : {"ok", "fail", "raise"}, cm : {"ok", "fail"}]

\* no orchestrated run; a handle, connected or not, with autocommit as
\* configured, and a table
InitDirect ==
    /\ pc = "direct"
    /\ steps = [none |-> TRUE, keys |-> << >>]
    /\ dry_run = FALSE
    /\ exec_steps = << >>
    /\ idx = 1
    /\ db = NoDb
    /\ store = [committed |-> [tab |-> InitialTab, jahr |-> << >>],
                pending   |-> [tab |-> InitialTab, jahr |-> << >>]]
    /\ before = [tab |-> InitialTab, jahr |-> << >>]
    /\ calls = << >>
    /\ invoked = << >>
    /\ ret = "none"
    /\ result = "none"
    /\ exit_status = << >>
    /\ printed = << >>
    /\ cli = NoCli
    /\ handle = NoHandle
    /\ \E j \in DirectJahr, c \in BOOLEAN, a \in BOOLEAN :
          direct = [pc         |-> "idle",
                    key        |-> "",
                    do_commit  |-> FALSE,
                    db         |-> [connection |-> c, conn_autocommit |-> a],
                    store      |-> [committed |-> [tab |-> InitialTab, jahr |-> j],
                                    pending   |-> [tab |-> InitialTab, jahr |-> j]],
                    orig       |-> j,
                    jahre_list |-> << >>,
                    i          |-> 1,
                    ops        |-> << >>,
                    other      |-> 0,
                    ret        |-> "none"]

\* what the caller of a step gets: its return value, or the exception
\* that left it
DirectValue(r) ==
    IF r.raised THEN "raised" ELSE IF r.ok THEN "True" ELSE "False"

\* the step returns value, after having asked ops of the handle
DirectReturn(d, value, ops) ==
    [d EXCEPT !.pc = "returned", !.ret = value, !.ops = @ \o ops]

\* increment_schuljahresabschnitte_jahr(db, do_commit): False at once
\* without a connection
increment_jahr_call(do_commit) ==
    /\ direct.pc = "idle"
    /\ LET d == [direct EXCEPT !.key = "schuljahresabschnitte",
                               !.do_commit = do_commit]
       IN  direct' = IF direct.db.connection
                     THEN [d EXCEPT !.pc = "query"]
                     ELSE DirectReturn(d, "False", << >>)
    /\ UNCHANGED << runvars, printed, cli, handle >>

\* the query for the distinct years: "if not jahre_result: return True",
\* for no rows and for the None of a query that failed alike
distinct_jahre_query(out) ==
    /\ direct.pc = "query"
    /\ LET list == jahre_list(direct.store.pending.jahr)
           op   == DirectOp("query", NULL, out)
       IN  direct' = IF out = "error" \/ list = << >>
                     THEN DirectReturn(direct, "True", << op >>)
                     ELSE [direct EXCEPT !.jahre_list = list,
                                         !.i = 1,
                                         !.pc = "check",
                                         !.ops = Append(@, op)]
    /\ UNCHANGED << runvars, printed, cli, handle >>

\* the loop goes on with the next year of jahre_list, or ends
NextJahr(d) ==
    [d EXCEPT !.i = @ + 1,
              !.pc = IF d.i + 1 > Len(d.jahre_list) THEN "finish" ELSE "check"]

\* AfterCheck that never skips
AfterCheckNeverSkips(present) ==
    "update"

\* if check_result and check_result[0][0] > 0: continue
AfterCheck(present) ==
    IF present THEN "skip" ELSE "update"

\* new_jahr = jahr + 1 (TypeError for None) and the check query for
\* new_jahr; a check query that failed (None) counts as no row
check_query(out) ==
    /\ direct.pc = "check"
    /\ LET jahr == direct.jahre_list[direct.i]
       IN  IF jahr = NULL
           THEN direct' = [direct EXCEPT
                              !.pc = "except",
                              !.ops = Append(@, DirectOp("fault", jahr, "raise"))]
           ELSE LET present == /\ out = "rows"
                               /\ JahrExists(direct.store.pending.jahr, jahr + 1)
                    res     == IF out = "error" THEN "error"
                               ELSE IF present THEN "present" ELSE "absent"
                    d       == [direct EXCEPT
                                   !.ops = Append(@, DirectOp("check", jahr, res))]
                IN  direct' = IF AfterCheck(present) = "skip"
                              THEN NextJahr(d)
                              ELSE [d EXCEPT !.pc = "update"]
    /\ UNCHANGED << runvars, printed, cli, handle >>

\* UpdateFailed that raises: the except branch rolls back
UpdateFailedRollsBack(d, op) ==
    [d EXCEPT !.pc = "except", !.ops = Append(@, op)]

\* execute_update gave None: log and "return False", from inside the loop
UpdateFailed(d, op) ==
    DirectReturn(d, "False", << op >>)

\* the UPDATE of one year; return False when execute_update gives None;
\* what the call raises ("raise") is caught by the except branch
update_jahr(out) ==
    /\ direct.pc = "update"
    /\ LET jahr == direct.jahre_list[direct.i]
           st   == direct.store
           new  == [st.pending EXCEPT
                       !.jahr = UpdateJahr(st.pending.jahr, jahr, jahr + 1)]
           op   == DirectOp("update", jahr, out)
       IN  direct' = CASE out = "ok" ->
                            NextJahr([direct EXCEPT
                               !.store = execute_update(st, direct.db.conn_autocommit, new),
                               !.ops = Append(@, op)])
                       [] out = "raise" ->
                            [direct EXCEPT !.pc = "except", !.ops = Append(@, op)]
                       [] OTHER -> UpdateFailed(direct, op)
    /\ UNCHANGED << runvars, printed, cli, handle >>

\* the end of the step: commit when do_commit, and return
finish(cm) ==
    /\ direct.pc = "finish"
    /\ LET r == StepFinish(direct.store, direct.db.connection,
                           direct.do_commit, cm)
       IN  direct' = DirectReturn([direct EXCEPT !.store = r.store],
                                  DirectValue(r),
                                  IF r.committed
                                  THEN << DirectOp("commit", NULL, cm) >>
                                  ELSE << >>)
    /\ UNCHANGED << runvars, printed, cli, handle >>

\* except Exception: db.rollback() inside a try of its own, return False
except_rollback(rb) ==
    /\ direct.pc = "except"
    /\ LET r == StepExcept(direct.store, direct.db.connection, rb)
       IN  direct' = DirectReturn([direct EXCEPT !.store = r.store],
                                  DirectValue(r),
                                  << DirectOp("rollback", NULL, rb) >>)
    /\ UNCHANGED << runvars, printed, cli, handle >>

\* another session of the store commits, before the check query of this
\* call, the year the query asks for into row r; the connection reads
\* committed rows
other_session(r) ==
    /\ direct.pc = "check"
    /\ direct.other < MaxOther
    /\ LET new_jahr == direct.jahre_list[direct.i] + 1
           st       == direct.store
       IN  /\ direct.jahre_list[direct.i] # NULL
           /\ r \in DOMAIN st.pending.jahr
           /\ st.pending.jahr[r] # new_jahr
           /\ direct' = [direct EXCEPT
                 !.other = @ + 1,
                 !.store = [committed |-> [st.committed EXCEPT !.jahr[r] = new_jahr],
                            pending   |-> [st.pending EXCEPT !.jahr[r] = new_jahr]]]
    /\ UNCHANGED << runvars, printed, cli, handle >>

\* the single-UPDATE steps, called on their own
DirectKeys ==
    { "schueler_abschlussdatum", "lehrer_dates" }

\* increment_schueler_abschlussdatum(db, do_commit),
\* increment_lehrer_dates(db, do_commit), as one action: the count query,
\* the UPDATE unless the step returned before it, and the commit or the
\* rollback
increment_dates_call(key, do_commit, q) ==
    /\ direct.pc = "idle"
    /\ key \in DirectKeys
    /\ q \in DirectInputs
    /\ key = "lehrer_dates" => q.out # "empty"
    /\ LET r == func(key, direct.store, direct.db, do_commit, q)
           d == [direct EXCEPT !.key = key, !.do_commit = do_commit,
                               !.store = r.store]
           early == /\ key = "schueler_abschlussdatum"
                    /\ q.out \in {"empty", "query_error"}
       IN  direct' = DirectReturn(d, DirectValue(r),
                        (IF direct.db.connection
                         THEN << DirectOp("query", NULL,
                                    IF q.out = "query_error" THEN "error"
                                                             ELSE "rows") >>
                         ELSE << >>)
                        \o (IF direct.db.connection /\ ~early
                            THEN << DirectOp("update", NULL,
                                      CASE q.out = "fail"  -> "fail"
                                        [] q.out = "fault" -> "raise"
                                        [] OTHER           -> "ok") >>
                            ELSE << >>)
                        \o (IF r.committed
                            THEN << DirectOp("commit", NULL, q.cm) >>
                            ELSE << >>)
                        \o (IF r.rolled
                            THEN << DirectOp("rollback", NULL, q.rb) >>
                            ELSE << >>))
    /\ UNCHANGED << runvars, printed, cli, handle >>

NextDirect ==
    \/ \E do_commit \in BOOLEAN : increment_jahr_call(do_commit)
    \/ \E out \in {"rows", "error"} : distinct_jahre_query(out)
    \/ \E out \in {"rows", "error"} : check_query(out)
    \/ \E out \in {"ok", "fail", "raise"} : update_jahr(out)
    \/ \E cm \in Outcomes : finish(cm)
    \/ \E rb \in {"ok", "fail", "raise"} : except_rollback(rb)
    \/ \E r \in 1 .. MaxYearRows : other_session(r)
    \/ \E key \in DirectKeys, do_commit \in BOOLEAN, q \in DirectInputs :
          increment_dates_call(key, do_commit, q)

SpecDirect == InitDirect /\ [][NextDirect]_vars

(* ------------------- a dry run, then the run itself -------------------- *)

\* the entry of calls between the dry run and the run that follows it
AgainOp ==
    Op("run_all_increments", "", "caller", "again")

\* after a dry run that returned True, the same plan is run with
\* dry_run=False: a new call of run_all_increments, with a handle of its
\* own, on the store as the dry run left it
run_again ==
    /\ pc = "exited"
    /\ dry_run
    /\ result = "True"
    /\ dry_run' = FALSE
    /\ exec_steps' = ResolvePlan(steps).exec_steps
    /\ pc' = "config"
    /\ idx' = 1
    /\ db' = NoDb
    /\ calls' = Append(calls, AgainOp)
    /\ invoked' = << >>
    /\ ret' = "none"
    /\ result' = "none"
    /\ exit_status' = << >>
    /\ UNCHANGED << steps, store, before, direct, printed, cli, handle >>

\* the steps arguments of the runs that are run twice
AgainArgs ==
    { [none |-> TRUE, keys |-> << >>] }
      \cup { [none |-> FALSE, keys |-> k] : k \in SeqsUpTo(PlanKeys, MaxAgainPlanLen) }

NextTwoRuns ==
    \/ \E arg \in AgainArgs, dry \in BOOLEAN : Call(arg, dry)
    \/ NextCalled
    \/ run_again

SpecTwoRuns == Init /\ [][NextTwoRuns]_vars

(* ---------------------- main_cli: the run command ---------------------- *)

\* what a --steps value is made of: the comma, the blank, and pieces of
\* text without either (a key of the registry, and a letter)
ArgChars ==
    { ",", " ", "lehrer_dates", "x" }

\* the values of at most n --steps options with chars characters in all
RECURSIVE ArgLists(_, _)
ArgLists(n, chars) ==
    IF n = 0 THEN { << >> }
    ELSE { << >> } \cup
         UNION { { << a >> \o l : l \in ArgLists(n - 1, chars - Len(a)) } :
                 a \in SeqsUpTo(ArgChars, chars) }

\* args.steps: None without a --steps option (action="append"), else the
\* list of the values given; and the empty list, which a caller of
\* _normalize_steps can pass
StepArgs ==
    { [none |-> TRUE, list |-> << >>] }
      \cup { [none |-> FALSE, list |-> l] : l \in ArgLists(MaxArgs, MaxArgChars) }

\* s.split(","): the pieces between the commas, the empty ones too
RECURSIVE split(_)
split(s) ==
    IF \A i \in DOMAIN s : s[i] # "," THEN << s >>
    ELSE LET c == CHOOSE i \in DOMAIN s :
                     s[i] = "," /\ \A j \in 1 .. i - 1 : s[j] # ","
         IN  << SubSeq(s, 1, c - 1) >> \o split(SubSeq(s, c + 1, Len(s)))

\* strip that leaves the blanks at the end of the piece
stripLeadingOnly(p) ==
    IF \A i \in DOMAIN p : p[i] = " " THEN << >>
    ELSE LET first == CHOOSE i \in DOMAIN p :
                         p[i] # " " /\ \A j \in 1 .. i - 1 : p[j] = " "
         IN  SubSeq(p, first, Len(p))

\* p.strip(): the piece without the blanks before and after it
strip(p) ==
    IF \A i \in DOMAIN p : p[i] = " " THEN << >>
    ELSE LET first == CHOOSE i \in DOMAIN p :
                         p[i] # " " /\ \A j \in 1 .. i - 1 : p[j] = " "
             last  == CHOOSE i \in DOMAIN p :
                         p[i] # " " /\ \A j \in i + 1 .. Len(p) : p[j] = " "
         IN  SubSeq(p, first, last)

\* the string a sequence of characters and pieces of text spells
RECURSIVE Text(_)
Text(p) ==
    IF p = << >> THEN "" ELSE Head(p) \o Text(Tail(p))

\* parts = [p.strip() for p in s.split(",") if p.strip()]
parts(s) ==
    LET stripped == [i \in DOMAIN split(s) |-> strip(split(s)[i])]
        nonempty(p) == p # << >>
    IN  SelectSeq(stripped, nonempty)

\* for s in step_args: out.extend(parts)
RECURSIVE extend(_, _)
extend(out, step_args) ==
    IF step_args = << >> THEN out
    ELSE extend(out \o parts(Head(step_args)), Tail(step_args))

\* _normalize_steps that returns out as it is, the empty list too
_normalize_stepsReturnsEmptyList(step_args) ==
    IF step_args.none THEN [none |-> TRUE, tokens |-> << >>]
    ELSE [none |-> FALSE, tokens |-> extend(<< >>, step_args.list)]

\* _normalize_steps(step_args): None for None, else the tokens of all
\* values in order, "return out if out else None"
_normalize_steps(step_args) ==
    IF step_args.none THEN [none |-> TRUE, tokens |-> << >>]
    ELSE LET out == extend(<< >>, step_args.list)
         IN  IF out # << >> THEN [none |-> FALSE, tokens |-> out]
             ELSE [none |-> TRUE, tokens |-> << >>]

\* the steps argument main_cli passes on: the normalized tokens as strings
StepsOf(normalized) ==
    [none |-> normalized.none,
     keys |-> [i \in DOMAIN normalized.tokens |-> Text(normalized.tokens[i])]]

\* main_cli has parsed a run command: args.steps is any of StepArgs
InitCli ==
    /\ pc = "idle"
    /\ steps = [none |-> TRUE, keys |-> << >>]
    /\ dry_run = FALSE
    /\ exec_steps = << >>
    /\ idx = 1
    /\ db = NoDb
    /\ store = [committed |-> [tab |-> InitialTab, jahr |-> [r \in Rows |-> FirstYear]],
                pending   |-> [tab |-> InitialTab, jahr |-> [r \in Rows |-> FirstYear]]]
    /\ before = [tab |-> InitialTab, jahr |-> [r \in Rows |-> FirstYear]]
    /\ calls = << >>
    /\ invoked = << >>
    /\ ret = "none"
    /\ result = "none"
    /\ exit_status = << >>
    /\ direct = NoDirect
    /\ printed = << >>
    /\ handle = NoHandle
    /\ \E a \in StepArgs :
          cli = [pc |-> "parsed", step_args |-> a,
                 normalized |-> [none |-> TRUE, tokens |-> << >>]]

\* steps = _normalize_steps(args.steps)
normalize ==
    /\ cli.pc = "parsed"
    /\ cli' = [cli EXCEPT !.pc = "normalized",
                          !.normalized = _normalize_steps(cli.step_args)]
    /\ UNCHANGED << runvars, direct, printed, handle >>

\* ok = run_all_increments(config_path=args.config,
\*                         dry_run=bool(args.dry_run), steps=steps)
run_command(dry) ==
    /\ cli.pc = "normalized"
    /\ Call(StepsOf(cli.normalized), dry)

NextCli ==
    \/ normalize
    \/ \E dry \in BOOLEAN : run_command(dry)
    \/ NextCalled

SpecCli == InitCli /\ [][NextCli]_vars

(* ------------------- MariaDBConnection, call by call ------------------- *)

HandleMethods ==
    { "execute_query", "execute_update", "commit", "rollback", "disconnect" }

\* what the driver does with a call: it goes through ("ok"), it raises
\* mariadb.Error ("error"), or it raises something else ("exception", as
\* the TypeError for parameters that are no tuple)
DriverOutcomes ==
    { "ok", "error", "exception" }

\* "if not self.connection": None of the query methods, False of commit
\* and rollback; disconnect skips the close and returns (None)
NoConnection(method) ==
    CASE method \in {"execute_query", "execute_update"} -> "None"
      [] method \in {"commit", "rollback"}              -> "False"
      [] OTHER                                          -> "None"

\* OnError without the except clauses: mariadb.Error leaves the method
OnErrorRaises(method) ==
    "raised"

\* "except mariadb.Error": None of the query methods, False of commit and
\* rollback; the close() of disconnect is inside no try
OnError(method) ==
    CASE method \in {"execute_query", "execute_update"} -> "None"
      [] method \in {"commit", "rollback"}              -> "False"
      [] OTHER                                          -> "raised"

\* what a method returns when the driver call went through: the rows, the
\* row count, True, and the None of disconnect
OnSuccess(method) ==
    CASE method = "execute_query"           -> "rows"
      [] method = "execute_update"          -> "rowcount"
      [] method \in {"commit", "rollback"}  -> "True"
      [] OTHER                              -> "None"

\* what the caller of a method gets; "raised": an exception
HandleResult(method, connection, out) ==
    IF ~connection THEN NoConnection(method)
    ELSE CASE out = "ok"    -> OnSuccess(method)
           [] out = "error" -> OnError(method)
           [] OTHER         -> "raised"

\* what a method makes of the store: an UPDATE that went through changes
\* one row more, commit and rollback resolve the transaction, a close
\* drops it; without a connection and after an exception nothing changes
HandleEffect(method, h, out) ==
    IF ~h.connection \/ out # "ok" THEN h.store
    ELSE CASE method = "execute_update" ->
                 execute_update(h.store, h.autocommit, h.store.pending + 1)
           [] method = "commit"     -> commit(h.store, TRUE, out).store
           [] method = "rollback"   -> rollback(h.store, TRUE, out).store
           [] method = "disconnect" -> disconnect(h.store, TRUE)
           [] OTHER                 -> h.store

\* a MariaDBConnection without a connection (connection is None) or with
\* an open one; no orchestrated run
InitHandle ==
    /\ pc = "handle"
    /\ steps = [none |-> TRUE, keys |-> << >>]
    /\ dry_run = FALSE
    /\ exec_steps = << >>
    /\ idx = 1
    /\ db = NoDb
    /\ store = [committed |-> [tab |-> InitialTab, jahr |-> << >>],
                pending   |-> [tab |-> InitialTab, jahr |-> << >>]]
    /\ before = [tab |-> InitialTab, jahr |-> << >>]
    /\ calls = << >>
    /\ invoked = << >>
    /\ ret = "none"
    /\ result = "none"
    /\ exit_status = << >>
    /\ direct = NoDirect
    /\ printed = << >>
    /\ cli = NoCli
    /\ \E c \in BOOLEAN, a \in BOOLEAN :
          handle = [pc         |-> "ready",
                    connection |-> c,
                    open       |-> c,
                    autocommit |-> a,
                    store      |-> [committed |-> 0, pending |-> 0],
                    log        |-> << >>]

\* one call of a method of the handle. disconnect closes the connection
\* and leaves self.connection set: the driver lets no later call through
handle_call(method, out) ==
    /\ handle.pc = "ready"
    /\ Len(handle.log) < MaxHandleCalls
    /\ (method # "disconnect" /\ out = "ok") => handle.open
    /\ handle' = [handle EXCEPT
          !.store = HandleEffect(method, handle, out),
          !.open  = IF method = "disconnect" /\ out = "ok" THEN FALSE ELSE @,
          !.log   = Append(@, [method     |-> method,
                               connection |-> handle.connection,
                               out        |-> out,
                               result     |-> HandleResult(method, handle.connection, out),
                               changed    |-> HandleEffect(method, handle, out) # handle.store])]
    /\ UNCHANGED << runvars, direct, printed, cli >>

NextHandle ==
    \E method \in HandleMethods, out \in DriverOutcomes : handle_call(method, out)

SpecHandle == InitHandle /\ [][NextHandle]_vars

(* ------------------------------ claims --------------------------------- *)

\* the run has returned to its caller (and main_cli may have exited)
Returned == pc \in {"returned", "exited"}

\* the positions of calls that hold operation name
CallsOf(name) == { i \in DOMAIN calls : calls[i].op = name }

\* the run reached Running: db.connect() returned True
Connected == \E i \in CallsOf("connect") : calls[i].res = "ok"

\* some step called so far returned False
StepFailed == \E i \in DOMAIN invoked : ~invoked[i].ok

\* every step of the execution list was called and returned True
AllSucceeded ==
    /\ Connected
    /\ Len(invoked) = Len(exec_steps)
    /\ \A i \in DOMAIN invoked : invoked[i].ok

\* the keys of the steps called so far, in the order of the calls
InvokedKeys == [i \in DOMAIN invoked |-> invoked[i].key]

\* the steps argument is a list (not None)
Explicit == pc # "idle" /\ ~steps.none

\* C1: whenever a step has returned False, no commit is ever issued and
\* the persisted store is what it was before the run; and when such a run
\* has returned, the orchestrator has issued a rollback and the result is
\* False.
C1_Atomicity ==
    StepFailed =>
        /\ CallsOf("commit") = {}
        /\ store.committed = before
        /\ Returned =>
              /\ \E i \in CallsOf("rollback") : calls[i].by = "run"
              /\ result = "False"

\* C1 witness: the third step of a plan failed after two steps that
\* succeeded and advanced their tables, and the run has returned.
C1_Witness ==
    /\ Returned
    /\ Len(invoked) = 3
    /\ invoked[1].ok /\ invoked[2].ok /\ ~invoked[3].ok
    /\ invoked[1].key = "lehrer_dates"
    /\ calls[3].res = "ok"

\* C2: a dry run in which every step succeeded returns True and leaves
\* the persisted store as it was before the run.
C2_DryRunNoOp ==
    (Returned /\ dry_run /\ AllSucceeded) =>
        /\ store.committed = before
        /\ result = "True"

\* C2 witness: a dry run of three steps that all succeeded has returned;
\* its first step advanced the dates of K_Lehrer.
C2_Witness ==
    /\ Returned /\ dry_run /\ AllSucceeded
    /\ Len(invoked) = 3
    /\ invoked[1].key = "lehrer_dates"
    /\ calls[3].res = "ok"

\* C3: the steps called are a prefix of the execution list, in its order,
\* and only the last step called can have returned False; a run that has
\* returned called either the whole list or stopped at the failing step.
C3_ShortCircuit ==
    /\ Len(invoked) <= Len(exec_steps)
    /\ \A i \in DOMAIN invoked :
          /\ invoked[i].key = exec_steps[i]
          /\ ~invoked[i].ok => i = Len(invoked)
    /\ (Returned /\ Connected) => (StepFailed \/ Len(invoked) = Len(exec_steps))

\* C3 witness: step 2 of the 14 registry steps failed and the run has
\* returned with two steps called.
C3_Witness ==
    /\ Returned
    /\ Len(exec_steps) = 14
    /\ Len(invoked) = 2
    /\ ~invoked[2].ok

\* C4: the run returns True only if every step of the plan was called and
\* returned True and either dry_run was set or the commit succeeded; with
\* a failed step or a failed commit the result is never True.
C4_TrueOnlyIfComplete ==
    /\ result = "True" =>
          /\ AllSucceeded
          /\ dry_run \/ \E i \in CallsOf("commit") : calls[i].res = "ok"
    /\ (StepFailed \/ \E i \in CallsOf("commit") : calls[i].res # "ok")
          => result # "True"

\* C4 witness: a run that is no dry run returned True after two steps and
\* a commit that succeeded.
C4_Witness ==
    /\ result = "True"
    /\ ~dry_run
    /\ Len(invoked) = 2

\* C5: when every step succeeded and dry_run is False, the call after the
\* last step is the commit; when that commit failed, the next call is the
\* orchestrator's rollback and the run returns False.
C5_CommitThenRollback ==
    (Returned /\ AllSucceeded /\ ~dry_run) =>
        \E i \in CallsOf("commit") :
            /\ CallsOf("commit") = {i}
            /\ \A j \in CallsOf("step") : j < i
            /\ Cardinality(CallsOf("step")) = Len(exec_steps)
            /\ calls[i].res = "ok" => result = "True"
            /\ calls[i].res # "ok" =>
                  /\ calls[i + 1].op = "rollback"
                  /\ calls[i + 1].by = "run"
                  /\ result = "False"

\* C5 witness: the commit after two successful steps failed and the run
\* has returned.
C5_Witness ==
    /\ Returned /\ AllSucceeded /\ ~dry_run
    /\ Len(invoked) = 2
    /\ \E i \in CallsOf("commit") : calls[i].res = "fail"

\* the steps argument holds a key that is not in the registry
HasUnknownKey == \E i \in DOMAIN steps.keys : steps.keys[i] \notin allowed

\* C6: a call with a list that holds an unknown key has returned False
\* at once: no configuration loaded, no connection object, no handle call,
\* no step called, the store untouched.
C6_FailFastUnknownKey ==
    (Explicit /\ HasUnknownKey) =>
        /\ Returned
        /\ result = "False"
        /\ calls = << >>
        /\ invoked = << >>
        /\ ~db.created
        /\ store.committed = before /\ store.pending = before

\* C6 witness: the plan holds a valid key followed by an unknown key.
C6_Witness ==
    /\ Explicit
    /\ Len(steps.keys) = 2
    /\ steps.keys[1] \in allowed
    /\ steps.keys[2] \notin allowed

\* C7: with a list of valid keys, the steps called are the keys of the
\* list in the order of the list, and all of them when every step
\* succeeded.
C7_OrderPreserved ==
    (Explicit /\ ~HasUnknownKey) =>
        /\ Len(invoked) <= Len(steps.keys)
        /\ \A i \in DOMAIN invoked : invoked[i].key = steps.keys[i]
        /\ (Returned /\ Connected /\ ~StepFailed) => InvokedKeys = steps.keys

\* C7 witness: the plan [lehrer_dates, schuljahresabschnitte,
\* schueler_abschlussdatum] (registry positions 14, 1, 3) ran through.
C7_Witness ==
    /\ Returned
    /\ Explicit
    /\ steps.keys = << "lehrer_dates", "schuljahresabschnitte",
                       "schueler_abschlussdatum" >>
    /\ InvokedKeys = steps.keys

\* C8 as stated: a run called with None or with an empty list that ran
\* through has called all registry steps in registry order.
C8_NoneOrEmptyRunsAll ==
    (Returned /\ AllSucceeded /\ (steps.none \/ steps.keys = << >>)) =>
        InvokedKeys = get_available_steps

\* C8 amended: with None the execution list is the registry in registry
\* order and the steps called are a prefix of it (all of it when every
\* step succeeded); with an empty list the execution list is empty and no
\* step is called.
C8_NoneRunsAll ==
    /\ (pc # "idle" /\ steps.none) =>
          /\ exec_steps = get_available_steps
          /\ \A i \in DOMAIN invoked : invoked[i].key = get_available_steps[i]
          /\ (Returned /\ AllSucceeded) => InvokedKeys = get_available_steps
    /\ (Explicit /\ steps.keys = << >>) =>
          /\ exec_steps = << >>
          /\ invoked = << >>

\* C8 witness: a run called with None has called all 14 registry steps
\* and returned True.
C8_Witness ==
    /\ Returned
    /\ steps.none
    /\ Len(invoked) = 14
    /\ result = "True"

\* the positions of the resolving calls (commit or rollback), whoever
\* made them
ResolvingCalls == CallsOf("commit") \cup CallsOf("rollback")

\* C9 as stated: a run that reached Running and has returned has made
\* exactly one resolving call on the handle.
C9_ExactlyOneResolvingCall ==
    (Returned /\ Connected) => Cardinality(ResolvingCalls) = 1

\* C10 as stated: every run that has returned after db.connect() was
\* called (Committed, RolledBack or ConnectFailed) has called disconnect.
C10_DisconnectAlways ==
    (Returned /\ CallsOf("connect") # {}) => CallsOf("disconnect") # {}

\* C10 amended: a run that reached Running and has returned has called
\* disconnect exactly once, as its last handle call, also when a rollback
\* failed, and the connection is closed; a run whose connect failed has
\* returned False without a disconnect call and holds no connection.
C10_DisconnectAfterRunning ==
    /\ (Returned /\ Connected) =>
          /\ CallsOf("disconnect") = {Len(calls)}
          /\ ~db.connection
    /\ (Returned /\ CallsOf("connect") # {} /\ ~Connected) =>
          /\ CallsOf("disconnect") = {}
          /\ ~db.connection
          /\ result = "False"

\* C10 witness: the rollback after a failed step failed as well, and the
\* run has returned.
C10_Witness ==
    /\ Returned
    /\ StepFailed
    /\ \E i \in CallsOf("rollback") : calls[i].by = "run" /\ calls[i].res = "fail"
    /\ calls[Len(calls)].op = "disconnect"

\* the positions of the calls at which a fault was raised inside the try
\* block: a commit or rollback of the orchestrator that raised, or the
\* rollback a step made in its except branch after an exception in its body
Faults ==
    { i \in ResolvingCalls :
         \/ calls[i].by = "run" /\ calls[i].res = "raise"
         \/ calls[i].by = "step" }

\* C11: when a fault was raised in a step, in commit or in rollback while
\* the run was in its try block, the orchestrator has attempted a rollback
\* after the (first) fault, the run returns False, and nothing was raised
\* to the caller.
C11_FaultHandledLikeFailure ==
    /\ Connected => result # "raised"
    /\ (Returned /\ Faults # {}) =>
          /\ result = "False"
          /\ \E i \in Faults :
                /\ \A k \in Faults : i <= k
                /\ \E j \in CallsOf("rollback") : j > i /\ calls[j].by = "run"

\* C11 witness: the final commit raised after two successful steps, and
\* the run has returned.
C11_Witness ==
    /\ Returned
    /\ Len(invoked) = 2
    /\ \E i \in CallsOf("commit") : calls[i].res = "raise"

\* C12 as stated: whatever a collaborator call does, the caller gets a
\* boolean; no exception leaves run_all_increments.
C12_NoExceptionEscapes ==
    result # "raised"

\* db.connect() was called and returned False
ConnectFailed == \E i \in CallsOf("connect") : calls[i].res = "fail"

\* C13: while db.connect() has not returned True no step is called and no
\* commit or rollback is issued; when it returned False the run has
\* returned False, with the store untouched.
C13_ConnectFailedEndsRun ==
    /\ ~Connected => (invoked = << >> /\ ResolvingCalls = {} /\ CallsOf("step") = {})
    /\ ConnectFailed =>
          /\ Returned
          /\ result = "False"
          /\ ~db.connection
          /\ store.committed = before

\* C13 witness: db.connect() returned False for a plan of three steps.
C13_Witness ==
    /\ ConnectFailed
    /\ Len(exec_steps) = 3
    /\ result = "False"

\* the configuration gave no connection object: the document is missing,
\* is no JSON ("none"), or is unreadable or no JSON object ("raise")
ConfigFailed ==
    \E i \in CallsOf("load_config") : calls[i].res # "ok"

\* C14 as stated: when the configuration document is missing or invalid
\* the run returns False and connect is never called, nor a step, commit
\* or rollback.
C14_ConfigFailureReturnsFalse ==
    ConfigFailed =>
        /\ Returned
        /\ result = "False"
        /\ CallsOf("connect") = {}
        /\ invoked = << >>
        /\ ResolvingCalls = {}

\* C15 as stated: every commit and every rollback on the handle is called
\* by the orchestrator, none by a step.
C15_OnlyOrchestratorResolves ==
    \A i \in ResolvingCalls : calls[i].by = "run"

\* C16: no step commits; a commit on the handle is the orchestrator's, is
\* the only one, comes after every step of the plan was called and
\* returned True, and is never issued in a dry run.
C16_OnlyFinalCommit ==
    /\ Cardinality(CallsOf("commit")) <= 1
    /\ \A i \in CallsOf("commit") :
          /\ calls[i].by = "run"
          /\ ~dry_run
          /\ AllSucceeded
          /\ \A j \in CallsOf("step") : j < i
    /\ dry_run => CallsOf("commit") = {}

\* C16 witness: a run that is no dry run has called its three steps, each
\* of which updated its table without committing, and then committed.
C16_Witness ==
    /\ Returned
    /\ ~dry_run
    /\ Len(invoked) = 3
    /\ \A i \in CallsOf("step") : calls[i].res = "ok"
    /\ CallsOf("commit") # {}

\* C17: whatever autocommit the configuration asks for, the object and
\* the connection of a connected handle have autocommit off, and no step
\* is called on a handle with autocommit on.
C17_AutocommitDisabled ==
    /\ db.connection => (~db.autocommit /\ ~db.conn_autocommit)
    /\ invoked # << >> => (~db.autocommit /\ ~db.conn_autocommit)
    /\ CallsOf("connect") # {} => ~db.autocommit

\* C17 witness: the configuration asked for autocommit, and a step was
\* called and returned True on a connection with autocommit off.
C17_Witness ==
    /\ db.configured
    /\ db.connection
    /\ ~db.conn_autocommit
    /\ Len(invoked) = 1
    /\ invoked[1].ok

\* the final commit was called and did not return True
CommitFailed == \E i \in CallsOf("commit") : calls[i].res # "ok"

\* some rollback, of a step or of the orchestrator, did not return True
RollbackFailed == \E i \in CallsOf("rollback") : calls[i].res # "ok"

\* C18: a run in which a step returned False or the final commit failed
\* returns False, whatever its rollbacks did (returned True, returned
\* False or raised), and its last call is the disconnect that closes the
\* handle.
C18_RollbackFailureNeverMasks ==
    (Returned /\ (StepFailed \/ CommitFailed)) =>
        /\ result = "False"
        /\ calls[Len(calls)] = Op("disconnect", "", "run", "ok")
        /\ ~db.connection

\* C18 witness: the final commit returned False, the rollback that follows
\* raised, and so did the rollback of the handler.
C18_Witness ==
    /\ Returned
    /\ \E i \in CallsOf("commit") : calls[i].res = "fail"
    /\ Cardinality({ i \in CallsOf("rollback") : calls[i].res = "raise" }) = 2

\* C19 as stated: in a run of any plan the resolver accepts no step is
\* called more than once.
C19_EachStepAtMostOnce ==
    \A i, j \in DOMAIN invoked :
        invoked[i].key = invoked[j].key => i = j

\* the run has given its exit status to the shell
Exited == pc = "exited"

\* C20 as stated: a run in which a step failed returns False and exits
\* with 1, and a run whose final commit failed returns and exits with
\* something else.
C20_CommitFailureDistinct ==
    /\ (Returned /\ StepFailed) => result = "False"
    /\ (Exited /\ StepFailed) => exit_status = << 1 >>
    /\ (Returned /\ CommitFailed) => result # "False"
    /\ (Exited /\ CommitFailed) => exit_status # << 1 >>

\* C20, amended: a run whose final commit failed and a run in which a step
\* failed give the caller the same: run_all_increments returns False and
\* the command exits with status 1.  No run is both.
C20_FailuresReturnAlike ==
    /\ (Returned /\ (StepFailed \/ CommitFailed)) => result = "False"
    /\ (Exited /\ (StepFailed \/ CommitFailed)) => exit_status = << 1 >>
    /\ ~(StepFailed /\ CommitFailed)

\* C20 witness: the final commit returned False after two steps, and the
\* command has exited with status 1.
C20_Witness ==
    /\ Exited
    /\ Len(invoked) = 2
    /\ \E i \in CallsOf("commit") : calls[i].res = "fail"
    /\ exit_status = << 1 >>

\* the key of the step that returned False (after it no step is called)
FailedStep == invoked[Len(invoked)].key

\* the key whose failure the other failures are compared with
ReferenceKey == "schuljahresabschnitte"

\* C21 as stated: what the caller gets tells which step failed: a run in
\* which another step failed than ReferenceKey returns something else than
\* the False a run returns in which ReferenceKey failed.
C21_OutcomeNamesFailedStep ==
    /\ (Returned /\ StepFailed /\ FailedStep = ReferenceKey) =>
           result = "False"
    /\ (Returned /\ StepFailed /\ FailedStep # ReferenceKey) =>
           result # "False"

\* C21, amended: whichever step failed, the caller gets the same False (and
\* the command the same exit status 1); the failing step is the last one
\* called and the only one that returned False.
C21_FailedStepNotInOutcome ==
    /\ (Returned /\ StepFailed) => result = "False"
    /\ (Exited /\ StepFailed) => exit_status = << 1 >>
    /\ StepFailed =>
          \A i \in DOMAIN invoked : ~invoked[i].ok <=> i = Len(invoked)

\* C21 witness: the run has returned False after its second step,
\* lehrer_dates, failed behind a first step with another key.
C21_Witness ==
    /\ Returned
    /\ Len(invoked) = 2
    /\ StepFailed
    /\ FailedStep = "lehrer_dates"
    /\ invoked[1].key = ReferenceKey
    /\ result = "False"

\* some key of the plan is not in the registry
UnknownStepKey ==
    /\ ~steps.none
    /\ \E i \in DOMAIN steps.keys : steps.keys[i] \notin allowed

\* C22: the command exits with 0 exactly when run_all_increments returned
\* True, a successful dry run included, and with 1 after a connection
\* failure, an unknown step key, a step failure and a commit failure.
C22_ExitStatus ==
    Exited =>
        /\ exit_status \in { << 0 >>, << 1 >> }
        /\ exit_status = << 0 >> <=> result = "True"
        /\ (AllSucceeded /\ dry_run) => exit_status = << 0 >>
        /\ (ConnectFailed \/ UnknownStepKey \/ StepFailed \/ CommitFailed) =>
               exit_status = << 1 >>

\* C22 witness: a dry run of two steps has succeeded and the command has
\* exited with status 0.
C22_Witness ==
    /\ Exited
    /\ dry_run
    /\ AllSucceeded
    /\ Len(invoked) = 2
    /\ exit_status = << 0 >>

\* C24: the keys of the registry are pairwise distinct, and the lookup
\* of plan resolution gives for the key of every entry the function of
\* that entry; every step of an execution list is the one entry of the
\* registry with its key.
C24_KeysDistinct ==
    /\ \A i, j \in DOMAIN get_available_steps :
          get_available_steps[i] = get_available_steps[j] => i = j
    /\ DOMAIN registered = DOMAIN get_available_steps
    /\ \A i \in DOMAIN get_available_steps :
          allowed_get(get_available_steps[i]) = registered[i]
    /\ \A i \in DOMAIN exec_steps :
          \E n \in DOMAIN get_available_steps :
              /\ get_available_steps[n] = exec_steps[i]
              /\ allowed_get(exec_steps[i]) = registered[n]
              /\ \A m \in DOMAIN get_available_steps :
                    get_available_steps[m] = exec_steps[i] => m = n

\* C24 witness: the plan << lehrer_dates, schuljahresabschnitte >> was
\* resolved by lookup, and the year rollover, called second, has raised the
\* years of the table.
C24_Witness ==
    /\ Explicit
    /\ exec_steps = << "lehrer_dates", "schuljahresabschnitte" >>
    /\ Len(invoked) = 2
    /\ invoked[2].ok
    /\ allowed_get(exec_steps[2]) = "increment_schuljahresabschnitte_jahr"
    /\ store.pending.jahr # before.jahr

\* the step function called on its own has returned
DirectReturned == direct.pc = "returned"

\* the year rollover was called on its own, on a connected handle
Rollover ==
    /\ direct.pc \notin {"none", "idle"}
    /\ direct.key = "schuljahresabschnitte"
    /\ direct.db.connection

\* the positions of direct.ops that hold operation name
OpsOf(name) == { i \in DOMAIN direct.ops : direct.ops[i].op = name }

\* the years the table held when the step was called
OrigYears == { direct.orig[r] : r \in DOMAIN direct.orig }

\* no query, update, commit or rollback of the call failed, the step ran
\* into no exception, and no other session changed the table
NoStoreError ==
    /\ direct.other = 0
    /\ \A i \in DOMAIN direct.ops : direct.ops[i].res \notin {"error", "fail", "raise"}

\* the years of the updates that went through, in the order of the calls
UpdatedYears ==
    LET ok(o) == o.op = "update" /\ o.res = "ok"
        u     == SelectSeq(direct.ops, ok)
    IN  [i \in DOMAIN u |-> u[i].jahr]

\* C25: with integer years in every row and no store error, the year
\* rollover takes the years from the highest to the lowest, skips none
\* and, once returned, has updated each of them once, has raised the year
\* of every row by one (so the rows of a year stay together) and has
\* returned True.
C25_RolloverResult ==
    (Rollover /\ NULL \notin OrigYears /\ NoStoreError) =>
        /\ \A i, j \in OpsOf("check") :
              i < j => direct.ops[i].jahr > direct.ops[j].jahr
        /\ \A i \in OpsOf("check") : direct.ops[i].res = "absent"
        /\ DirectReturned =>
              /\ direct.ret = "True"
              /\ UpdatedYears = jahre_list(direct.orig)
              /\ \A r \in DOMAIN direct.orig :
                    direct.store.pending.jahr[r] = direct.orig[r] + 1
              /\ { direct.store.pending.jahr[r] : r \in DOMAIN direct.orig }
                    = { y + 1 : y \in OrigYears }

\* C25 witness: the table held the years FirstYear and FirstYear + 1 (2023
\* and 2024), two rows in the first, and holds FirstYear + 1 and
\* FirstYear + 2 after the step returned True.
C25_Witness ==
    /\ Rollover
    /\ DirectReturned
    /\ NoStoreError
    /\ direct.orig = << FirstYear, FirstYear, FirstYear + 1 >>
    /\ direct.store.pending.jahr
          = << FirstYear + 1, FirstYear + 1, FirstYear + 2 >>
    /\ direct.ret = "True"

\* the table held the three years FirstYear .. FirstYear + 2 (2023, 2024,
\* 2025), and the call went through without a store error
ThreeYears ==
    /\ Rollover
    /\ DirectReturned
    /\ NoStoreError
    /\ direct.orig = << FirstYear, FirstYear + 1, FirstYear + 2 >>

\* C26 as stated: on the years 2023, 2024, 2025 the step updates 2025 only,
\* finds 2025 and 2024 present when it checks for 2024 and for 2023, and
\* returns True.
C26_SkipsLowerYears ==
    ThreeYears =>
        /\ direct.ret = "True"
        /\ UpdatedYears = << FirstYear + 2 >>
        /\ \A i \in OpsOf("check") :
              direct.ops[i].jahr < FirstYear + 2 => direct.ops[i].res = "present"

\* C26, amended: on the years 2023, 2024, 2025 the step finds no year
\* present when it checks (each target was moved away just before),
\* updates 2025, 2024 and 2023 in this order, leaves 2024, 2025, 2026 and
\* returns True.
C26_UpdatesAllThree ==
    ThreeYears =>
        /\ direct.ret = "True"
        /\ UpdatedYears = << FirstYear + 2, FirstYear + 1, FirstYear >>
        /\ \A i \in OpsOf("check") : direct.ops[i].res = "absent"
        /\ direct.store.pending.jahr
              = << FirstYear + 1, FirstYear + 2, FirstYear + 3 >>

\* C26 witness: the step has returned from the years 2023, 2024, 2025
\* after three updates, called with do_commit and committed.
C26_Witness ==
    /\ ThreeYears
    /\ Len(UpdatedYears) = 3
    /\ direct.do_commit
    /\ direct.store.committed.jahr
          = << FirstYear + 1, FirstYear + 2, FirstYear + 3 >>

\* the check query at position i of direct.ops found the year present
SkippedAt(i) ==
    /\ i \in OpsOf("check")
    /\ direct.ops[i].res = "present"

\* C27: every update of a year comes right after the check query for that
\* year, which did not find year + 1; after a check that found year + 1
\* no update of that year is issued, the next thing the step does is the
\* check for a lower year (or the end of the loop), and a step that
\* skipped a year and met no store error returns True.
C27_CheckBeforeUpdate ==
    Rollover =>
        /\ \A i \in OpsOf("update") :
              /\ i > 1
              /\ direct.ops[i - 1].op = "check"
              /\ direct.ops[i - 1].jahr = direct.ops[i].jahr
              /\ direct.ops[i - 1].res # "present"
        /\ \A i \in DOMAIN direct.ops :
              SkippedAt(i) =>
                 /\ \A j \in OpsOf("update") :
                       direct.ops[j].jahr # direct.ops[i].jahr
                 /\ i < Len(direct.ops) =>
                       /\ direct.ops[i + 1].op \in {"check", "fault", "commit"}
                       /\ direct.ops[i + 1].op \in {"check", "fault"} =>
                             direct.ops[i + 1].jahr < direct.ops[i].jahr
        /\ ( /\ DirectReturned
             /\ \E i \in DOMAIN direct.ops : SkippedAt(i)
             /\ \A i \in DOMAIN direct.ops :
                   direct.ops[i].res \notin {"fail", "raise"} )
           => direct.ret = "True"

\* C27 witness: the check for the highest year found year + 1 (another
\* session had committed it), the step skipped that year, updated a lower
\* one and returned True.
C27_Witness ==
    /\ Rollover
    /\ DirectReturned
    /\ SkippedAt(2)
    /\ \E j \in OpsOf("update") :
          /\ j > 2
          /\ direct.ops[j].res = "ok"
          /\ direct.ops[j].jahr < direct.ops[2].jahr
    /\ direct.ret = "True"

\* C28: while no other session changes the table, rows that held
\* different years when the step was called hold different years in every
\* state of the step, between any two of its updates too.
C28_NoGroupsMerged ==
    (Rollover /\ direct.other = 0) =>
        \A r1, r2 \in DOMAIN direct.orig :
            direct.orig[r1] # direct.orig[r2] =>
                direct.store.pending.jahr[r1] # direct.store.pending.jahr[r2]

\* C28 witness: between the first and the second update of a table of
\* three different years: the highest year is moved, the loop stands
\* before the check of the second.
C28_Witness ==
    /\ Rollover
    /\ direct.other = 0
    /\ direct.pc = "check"
    /\ direct.i = 2
    /\ Cardinality(OrigYears) = 3
    /\ UpdatedYears = << FirstYear + 2 >>

\* the step got as far as its commit block: it issued its update (or its
\* checks) and none failed or raised
UpdatesSucceeded ==
    /\ DirectReturned
    /\ OpsOf("update") \cup OpsOf("check") # {}
    /\ \A i \in DOMAIN direct.ops :
          direct.ops[i].op \in {"update", "check", "fault"} =>
              direct.ops[i].res \notin {"fail", "raise"}

\* C29: a step called with do_commit calls commit once, as the last thing
\* it does, when its updates succeeded, and returns what commit returned;
\* it calls no commit when they did not.  A step called without
\* do_commit calls no commit, returns True when its updates succeeded and
\* leaves what is committed as it was (autocommit off, no other session).
C29_StepCommitProtocol ==
    /\ Cardinality(OpsOf("commit")) <= 1
    /\ \A i \in OpsOf("commit") :
          /\ direct.do_commit
          /\ UpdatesSucceeded
          /\ i = Len(direct.ops)
          /\ direct.ret = "True" <=> direct.ops[i].res = "ok"
    /\ (direct.pc # "none" /\ UpdatesSucceeded /\ direct.do_commit) =>
          OpsOf("commit") # {}
    /\ (direct.pc # "none" /\ UpdatesSucceeded /\ ~direct.do_commit) =>
          /\ direct.ret = "True"
          /\ (~direct.db.conn_autocommit /\ direct.other = 0) =>
                /\ direct.store.committed.jahr = direct.orig
                /\ direct.store.committed.tab = InitialTab

\* C29 witness: increment_lehrer_dates was called with do_commit, its
\* update went through, the commit failed and the step returned False.
C29_Witness ==
    /\ DirectReturned
    /\ direct.key = "lehrer_dates"
    /\ direct.do_commit
    /\ \E i \in OpsOf("commit") : direct.ops[i].res = "fail"
    /\ direct.store.pending.tab["lehrer_dates"] = 1
    /\ direct.ret = "False"

\* C30 as stated: a year rollover or Abschlussdatum step whose first
\* query came back with the error sentinel returns False.
C30_QueryErrorFails ==
    ( /\ DirectReturned
      /\ direct.key \in {"schuljahresabschnitte", "schueler_abschlussdatum"}
      /\ direct.ops # << >>
      /\ direct.ops[1] = DirectOp("query", NULL, "error") )
    => direct.ret = "False"

FaultOps ==
    { i \in DOMAIN direct.ops :
         \/ direct.ops[i].op = "fault"
         \/ direct.ops[i].op = "update" /\ direct.ops[i].res = "raise" }

\* C31: a step never lets an exception out. After an exception inside the
\* step body the step calls db.rollback() next and nothing else, and
\* returns False, whatever the rollback returns or raises.
C31_StepNeverRaises ==
    direct.pc # "none" =>
       /\ direct.ret # "raised"
       /\ \A i \in FaultOps :
             IF DirectReturned
             THEN /\ direct.ret = "False"
                  /\ Len(direct.ops) = i + 1
                  /\ direct.ops[i + 1].op = "rollback"
             ELSE /\ direct.pc = "except"
                  /\ Len(direct.ops) = i

\* the year rollover met a NULL year after an update, its rollback raised,
\* and the step returned False
C31_Witness ==
    /\ Rollover
    /\ DirectReturned
    /\ OpsOf("fault") # {}
    /\ Len(UpdatedYears) > 0
    /\ direct.ops[Len(direct.ops)] = DirectOp("rollback", NULL, "raise")
    /\ direct.ret = "False"

\* C32: when an UPDATE of the year rollover gives the error sentinel, the
\* step returns False at once: the failed UPDATE is the last thing it
\* asked of the handle, so no lower year is checked or updated and there
\* is neither a commit nor a rollback, with do_commit too; the updates of
\* the higher years stay pending (and are persisted only by a connection
\* that autocommits).
C32_UpdateFailureReturnsAtOnce ==
    Rollover =>
       \A i \in OpsOf("update") :
          direct.ops[i].res = "fail" =>
             /\ DirectReturned
             /\ direct.ret = "False"
             /\ i = Len(direct.ops)
             /\ OpsOf("commit") = {}
             /\ OpsOf("rollback") = {}
             /\ direct.other = 0 =>
                   /\ \A r \in DOMAIN direct.orig :
                         direct.store.pending.jahr[r] =
                            IF \E k \in DOMAIN UpdatedYears :
                                  UpdatedYears[k] = direct.orig[r]
                            THEN direct.orig[r] + 1
                            ELSE direct.orig[r]
                   /\ ~direct.db.conn_autocommit =>
                         direct.store.committed.jahr = direct.orig

\* with do_commit, the update of a lower year failed after a higher year
\* was updated, and that update is still pending
C32_Witness ==
    /\ Rollover
    /\ DirectReturned
    /\ direct.do_commit
    /\ Len(UpdatedYears) > 0
    /\ direct.ops[Len(direct.ops)].op = "update"
    /\ direct.ops[Len(direct.ops)].res = "fail"
    /\ direct.store.pending.jahr # direct.store.committed.jahr
    /\ direct.ret = "False"


\* the part of the handle's life a logged call belongs to: 1 connect,
\* 2 the steps (a step's own handle calls included), 3 the commit and
\* rollback of run_all_increments itself, 4 disconnect; 0 before the handle
LifecyclePhase(c) ==
    CASE c.op = "load_config"            -> 0
      [] c.op = "connect"                -> 1
      [] c.op = "step" \/ c.by = "step"  -> 2
      [] c.op = "disconnect"             -> 4
      [] OTHER                           -> 3

\* C33: in a run whose connect succeeded the handle is used in the order
\* connect, steps, commit or rollback of the run, disconnect: there is one
\* connect, no step is called after the run's commit or rollback, nothing
\* is asked of the handle after disconnect, and a run that has returned
\* has disconnected exactly once, as its last call.
C33_LifecycleOrder ==
    Connected =>
       /\ Cardinality(CallsOf("connect")) = 1
       /\ \A i \in 1 .. Len(calls) - 1 :
             LifecyclePhase(calls[i]) <= LifecyclePhase(calls[i + 1])
       /\ Cardinality(CallsOf("disconnect")) <= 1
       /\ \A i \in CallsOf("disconnect") : i = Len(calls)
       /\ Returned <=> CallsOf("disconnect") # {}

\* a run of two steps whose final commit failed: connect, both steps, the
\* commit, the rollback, and disconnect
C33_Witness ==
    /\ Returned
    /\ Connected
    /\ Len(invoked) = 2
    /\ [i \in 1 .. 6 |-> calls[Len(calls) - 6 + i].op] =
          << "connect", "step", "step", "commit", "rollback", "disconnect" >>


\* C34: a dry run reports success only if its final rollback succeeded:
\* when every step returned True and the rollback of the dry run reports
\* failure, run_all_increments does not return True.
C34_DrySuccessNeedsRollback ==
    ( /\ Returned
      /\ dry_run
      /\ AllSucceeded
      /\ \E i \in CallsOf("rollback") :
            calls[i].by = "run" /\ calls[i].res = "fail" )
    => result # "True"


\* the --steps values written as one value, with commas between them
RECURSIVE Joined(_)
Joined(list) ==
    IF list = << >> THEN << >>
    ELSE IF Len(list) = 1 THEN list[1]
    ELSE list[1] \o << "," >> \o Joined(Tail(list))

\* the tokens of a value, read off its positions: between two successive
\* commas (or ends of the value) with something other than blanks between
\* them, the text from the first to the last position that is no blank
TokensOf(F) ==
    LET ends   == {0, Len(F) + 1} \cup { i \in DOMAIN F : F[i] = "," }
        next(a) == CHOOSE b \in ends : b > a /\ \A x \in ends : x > a => b <= x
        text(a) == { i \in (a + 1) .. (next(a) - 1) : F[i] # " " }
        starts == { a \in ends : a <= Len(F) /\ text(a) # {} }
        nth(k)  == CHOOSE a \in starts :
                      Cardinality({ x \in starts : x < a }) = k - 1
        lo(a)   == CHOOSE i \in text(a) : \A j \in text(a) : i <= j
        hi(a)   == CHOOSE i \in text(a) : \A j \in text(a) : j <= i
    IN  [k \in 1 .. Cardinality(starts) |-> SubSeq(F, lo(nth(k)), hi(nth(k)))]

\* C35: _normalize_steps gives None for None and for values without a
\* token, and else the tokens of all the values, from left to right, each
\* without the blanks around it, none of them empty, duplicates kept; the
\* run command passes these on as the steps argument, so that a run given
\* only empty --steps values resolves to all the steps of the registry.
C35_NormalizeSteps ==
    cli.pc = "normalized" =>
       LET a == cli.step_args
           n == cli.normalized
           t == TokensOf(Joined(a.list))
       IN  /\ n.none <=> (a.none \/ t = << >>)
           /\ ~n.none => n.tokens = t
           /\ \A k \in DOMAIN n.tokens :
                 /\ n.tokens[k] # << >>
                 /\ Head(n.tokens[k]) # " "
                 /\ n.tokens[k][Len(n.tokens[k])] # " "
                 /\ \A i \in DOMAIN n.tokens[k] : n.tokens[k][i] # ","
           /\ pc # "idle" => steps = StepsOf(n)
           /\ (pc # "idle" /\ n.none) => exec_steps = get_available_steps

\* two --steps values, the second with a blank before the key, gave the
\* same key twice, and the run called it twice
C35_Witness ==
    /\ cli.pc = "normalized"
    /\ cli.step_args = [none |-> FALSE,
                        list |-> << << "lehrer_dates" >>,
                                    << " ", "lehrer_dates" >> >>]
    /\ steps = [none |-> FALSE, keys |-> << "lehrer_dates", "lehrer_dates" >>]
    /\ InvokedKeys = << "lehrer_dates", "lehrer_dates" >>

\* a run command whose only --steps value is "," has called all the steps
\* of the registry, in their order
C35_WitnessEmpty ==
    /\ cli.pc = "normalized"
    /\ cli.step_args = [none |-> FALSE, list |-> << << "," >> >>]
    /\ steps.none
    /\ Returned
    /\ InvokedKeys = get_available_steps


\* the run is the one that follows a dry run
SecondRun == \E i \in DOMAIN calls : calls[i] = AgainOp

\* the calls of the run that follows the dry run
SecondCalls ==
    LET m == CHOOSE i \in DOMAIN calls : calls[i] = AgainOp
    IN  SubSeq(calls, m + 1, Len(calls))

\* what the store holds after the steps of these calls, on a connection
\* without autocommit, from the contents b
RECURSIVE StoreAfter(_, _)
StoreAfter(b, cs) ==
    IF cs = << >> THEN b
    ELSE IF Head(cs).op # "step" THEN StoreAfter(b, Tail(cs))
    ELSE LET q == [out |-> Head(cs).res, fail_at |-> 0, rb |-> "ok", cm |-> "ok"]
             r == func(Head(cs).key, [committed |-> b, pending |-> b],
                       [connection |-> TRUE, conn_autocommit |-> FALSE],
                       FALSE, q)
         IN  StoreAfter(r.store.pending, Tail(cs))

\* C36: a dry run that returned True leaves nothing behind for the run of
\* the same plan that follows it. That run starts on the store contents
\* the dry run started on, with nothing pending; it returns True exactly
\* when all its steps returned True and its commit went through, and the
\* store then holds what these steps make of the contents from before the
\* dry run; when it returns False the store holds these contents
\* unchanged. This is what a run without the dry run before it does.
C36_DryRunThenRun ==
    SecondRun =>
       /\ calls[Len(calls)] = AgainOp =>
             /\ store = [committed |-> before, pending |-> before]
             /\ ~db.connection
             /\ ~dry_run
       /\ Returned =>
             /\ result = "True" <=>
                   /\ Len(invoked) = Len(exec_steps)
                   /\ \A i \in DOMAIN invoked : invoked[i].ok
                   /\ \E i \in DOMAIN SecondCalls :
                         /\ SecondCalls[i].op = "commit"
                         /\ SecondCalls[i].res = "ok"
             /\ result = "True" =>
                   store.committed = StoreAfter(before, SecondCalls)
             /\ result # "True" => store.committed = before

\* a dry run of the year rollover and one more step whose rollback
\* failed, followed by the run itself, which returned True and advanced
\* the years and the table once
C36_Witness ==
    /\ SecondRun
    /\ Returned
    /\ result = "True"
    /\ \E i \in CallsOf("rollback") : calls[i].res = "fail"
    /\ Len(invoked) = 2
    /\ store.committed.jahr # before.jahr
    /\ store.committed.tab["lehrer_dates"] = 1


\* C37: the methods of the handle answer a failure with their sentinel.
\* Without a connection execute_query and execute_update return None,
\* commit and rollback return False, disconnect returns without an effect,
\* and nothing is raised; with a connection, a store error (mariadb.Error)
\* in execute_query, execute_update, commit or rollback gives None, None,
\* False, False, and no exception.
C37_SentinelNotException ==
    handle.pc # "none" =>
       \A i \in DOMAIN handle.log :
          LET c == handle.log[i]
              sentinel == IF c.method \in {"commit", "rollback"} THEN "False"
                          ELSE "None"
          IN  /\ ~c.connection => c.result = sentinel /\ ~c.changed
              /\ (c.connection /\ c.out = "error" /\ c.method # "disconnect") =>
                    c.result = sentinel /\ ~c.changed

\* on a connected handle an UPDATE went through, then the commit and the
\* rollback met a store error and returned False
C37_Witness ==
    /\ handle.pc # "none"
    /\ Len(handle.log) = 3
    /\ handle.log[1].method = "execute_update" /\ handle.log[1].result = "rowcount"
    /\ handle.log[2].method = "commit" /\ handle.log[2].out = "error"
    /\ handle.log[2].result = "False"
    /\ handle.log[3].method = "rollback" /\ handle.log[3].out = "error"
    /\ handle.log[3].result = "False"
    /\ handle.store.pending # handle.store.committed

\* without a connection, a query returned None and a commit False
C37_WitnessNoConnection ==
    /\ handle.pc # "none"
    /\ Len(handle.log) = 2
    /\ ~handle.log[1].connection
    /\ handle.log[1].method = "execute_query" /\ handle.log[1].result = "None"
    /\ handle.log[2].method = "commit" /\ handle.log[2].result = "False"

====
